---- MODULE Spec2Model ----
(***************************************************************************)
(* Model of the plant identification backend (backend/api/api.py and       *)
(* backend/api/services.py): image validation, request building for the    *)
(* PlantNet and plant.id providers, the single HTTP exchange, and the      *)
(* normalisation of the providers' JSON into ranked results.               *)
(*                                                                         *)
(* Python values are modelled as follows.                                  *)
(*   str that the code splits/strips/lowers : sequence of 1-char strings   *)
(*   other str                              : TLA+ string                  *)
(*   None                                   : the string None              *)
(*   bytes                                  : sequence of 0..255           *)
(*   dict                                   : function on its keys         *)
(*   list                                   : sequence                     *)
(*   Optional local / not yet bound         : sequence of length 0 or 1    *)
(***************************************************************************)
EXTENDS Integers, Sequences, FiniteSets, TLC

VARIABLES
    env,                        \* os.environ, fixed for the life of the process
    boot,                       \* import of api.py: "init", "up" or "crashed"
    plantnet_service,           \* api.py:15, <<>> until constructed
    _plant_id_disease_service,  \* api.py:16, <<>> is None
    pc,                         \* position of the request being served
    route,                      \* "identify", "detect" or "none"
    image,                      \* the UploadedFile: name, content, read position, reads
    organs,                     \* query parameter of /identify (str)
    organ,                      \* query parameter of /detect-disease (str)
    model,                      \* query parameter of /detect-disease (str)
    image_data,                 \* local of the route: bytes read from the upload
    validation,                 \* outcome of validate_image in this invocation
    backend,                    \* normalised model after backend selection
    http,                       \* requests handed to requests.post in this invocation
    response,                   \* <<>> or <<what requests.post brought back>>
    raw_result,                 \* <<>> or <<the provider's JSON>>
    reply,                      \* <<>> or <<[status, body]>> returned by the route
    fn,                         \* unit harness: function applied
    arg,                        \* unit harness: its argument
    out,                        \* unit harness: its result
    thread,                     \* threads inside get_plant_id_disease_service
    instances                   \* PlantIdDiseaseService objects constructed so far

vars == <<env, boot, plantnet_service, _plant_id_disease_service, pc, route,
          image, organs, organ, model, image_data, validation, backend, http,
          response, raw_result, reply, fn, arg, out, thread, instances>>

reqvars == <<pc, route, image, organs, organ, model, image_data, validation,
             backend, http, response, raw_result, reply>>

unitvars == <<fn, arg, out>>

lazyvars == <<thread, instances>>

-----------------------------------------------------------------------------
(* Python primitives                                                       *)

None == "None"

Falsy(v) == v = None \/ v = ""

\* x or y
Or(x, y) == IF Falsy(x) THEN y ELSE x

Has(d, k) == k \in DOMAIN d

\* d.get(k, default)
Get(d, k, default) == IF k \in DOMAIN d THEN d[k] ELSE default

Whitespace == {" ", "\t", "\n"}

Upper == {"A", "D", "E", "F", "I", "L", "N", "O", "P", "T"}

LowerOf(c) ==
    CASE c = "A" -> "a" [] c = "D" -> "d" [] c = "E" -> "e" [] c = "F" -> "f"
      [] c = "I" -> "i" [] c = "L" -> "l" [] c = "N" -> "n" [] c = "O" -> "o"
      [] c = "P" -> "p" [] c = "T" -> "t" [] OTHER -> c

\* str.lower()
lower(s) == [i \in 1..Len(s) |-> LowerOf(s[i])]

RECURSIVE lstrip(_)
lstrip(s) == IF s # <<>> /\ Head(s) \in Whitespace THEN lstrip(Tail(s)) ELSE s

RECURSIVE rstrip(_)
rstrip(s) ==
    IF s # <<>> /\ s[Len(s)] \in Whitespace
    THEN rstrip(SubSeq(s, 1, Len(s) - 1)) ELSE s

\* str.strip()
strip(s) == rstrip(lstrip(s))

\* str.split(sep) for a one-character separator: always at least one field
RECURSIVE split(_, _)
split(s, sep) ==
    IF \E i \in 1..Len(s) : s[i] = sep
    THEN LET i == CHOOSE j \in 1..Len(s) :
                      s[j] = sep /\ \A k \in 1..(j - 1) : s[k] # sep
         IN  <<SubSeq(s, 1, i - 1)>> \o split(SubSeq(s, i + 1, Len(s)), sep)
    ELSE <<s>>

-----------------------------------------------------------------------------
(* Process environment and module import                                   *)

EnvNames == {"PLANTNET_API_KEY", "PLANTNET_DISEASE_API_KEY", "PLANTNET_PROJECT",
             "PLANT_ID_API_KEY", "PLANTID_API_KEY"}

Environments ==
    { [ PLANTNET_API_KEY         |-> a,
        PLANTNET_DISEASE_API_KEY |-> b,
        PLANTNET_PROJECT         |-> c,
        PLANT_ID_API_KEY         |-> d,
        PLANTID_API_KEY          |-> e ] :
        a \in {None, "", "key-plantnet"},
        b \in {None, "", "key-plantnet-disease"},
        c \in {None, "weurope"},
        d \in {None, "", "key-plantid"},
        e \in {None, "key-plantid-alt"} }

\* os.getenv(name, default)
getenv(name, default) == IF env[name] = None THEN default ELSE env[name]

-----------------------------------------------------------------------------
(* Exceptions and call results                                             *)

Return(v) == [raised |-> FALSE, value |-> v]

Raise(type, msg) == [raised |-> TRUE, exc |-> [type |-> type, msg |-> msg]]

\* except ValueError catches ValueError only; except Exception catches all
IsValueError(e) == e.type = "ValueError"

-----------------------------------------------------------------------------
(* Image decoding (PIL.Image), abstracted to a two-byte header:            *)
(* byte 1 selects the codec, byte 2 declares the length of the pixel       *)
(* payload that follows.  Image.open reads the header only; load() reads   *)
(* the payload and fails on a short one.                                   *)

BytesIO(data) == [buf |-> data, pos |-> 0]

Codec(magic) ==
    CASE magic = 255 -> "JPEG"
      [] magic = 137 -> "PNG"
      [] magic = 66  -> None        \* opens, reports no format
      [] OTHER       -> "unidentified"

\* Image.open(fp): identifies the file from its header, lazily
ImageOpen(fp) ==
    IF Len(fp.buf) < 2 \/ Codec(fp.buf[1]) = "unidentified"
    THEN Raise("UnidentifiedImageError", [text |-> "cannot identify image file"])
    ELSE Return([format |-> Codec(fp.buf[1]),
                 fp     |-> [fp EXCEPT !.pos = 2]])

\* img.load(): decodes the pixel data from the image's own stream
ImageLoad(img) ==
    LET declared == img.fp.buf[2]
        present  == Len(img.fp.buf) - 2
    IN  IF present < declared
        THEN Raise("OSError", [text |-> "image file is truncated"])
        ELSE Return([img EXCEPT !.fp.pos = 2 + declared])

-----------------------------------------------------------------------------
(* services.py                                                             *)

BytesPerMb == 2

max_size_mb == 10

\* services.py:205-206, size_mb = len(data) / (1024 * 1024) is a true
\* division, so size_mb > max_size_mb iff len > max_size_mb * bytes-per-MB
TooLargeLoose(data, max_mb) == Len(data) >= max_mb * BytesPerMb

TooLarge(data, max_mb) == Len(data) > max_mb * BytesPerMb

InvalidImageFile(e) ==
    Raise("ValueError", [text |-> "Invalid image file", cause |-> e.msg.text])

\* mutant: a structural check only (open without load)
DecodeHeaderOnly(data) ==
    LET opened == ImageOpen(BytesIO(data))
    IN  IF opened.raised THEN InvalidImageFile(opened.exc)
        ELSE IF opened.value.format = None
        THEN InvalidImageFile([type |-> "ValueError",
                               msg |-> [text |-> "Cannot determine image format"]])
        ELSE Return(TRUE)

\* services.py:210-219, the try block of validate_image
Decode(data) ==
    LET opened == ImageOpen(BytesIO(data))
    IN  IF opened.raised THEN InvalidImageFile(opened.exc)
        ELSE IF opened.value.format = None
        THEN InvalidImageFile([type |-> "ValueError",
                               msg |-> [text |-> "Cannot determine image format"]])
        ELSE LET loaded == ImageLoad(opened.value)
             IN  IF loaded.raised THEN InvalidImageFile(loaded.exc)
                 ELSE Return(TRUE)

\* mutant: every buffer is accepted
AcceptAll(data, max_mb) == [call |-> Return(TRUE), decoded |-> FALSE]

\* PlantNetService.validate_image; decoded records whether Image.open ran
validate_image(data, max_mb) ==
    IF TooLarge(data, max_mb)
    THEN [call    |-> Raise("ValueError",
                            [text |-> "Image too large", cause |-> "size"]),
          decoded |-> FALSE]
    ELSE [call |-> Decode(data), decoded |-> TRUE]

\* PlantIdDiseaseService.__init__
PlantIdDiseaseService ==
    LET api_key == Or(getenv("PLANT_ID_API_KEY", None), getenv("PLANTID_API_KEY", None))
    IN  IF Falsy(api_key)
        THEN Raise("ValueError", [text |-> "PLANT_ID_API_KEY (or PLANTID_API_KEY) not set"])
        ELSE Return([api_key |-> api_key])

\* PlantNetService.__init__
PlantNetService ==
    LET api_key == getenv("PLANTNET_API_KEY", None)
        self == [api_key         |-> api_key,
                 disease_api_key |-> getenv("PLANTNET_DISEASE_API_KEY", api_key),
                 project         |-> getenv("PLANTNET_PROJECT", "all")]
    IN  IF Falsy(api_key)
        THEN Raise("ValueError", [text |-> "PLANTNET_API_KEY not found in environment variables"])
        ELSE Return(self)

-----------------------------------------------------------------------------
(* The HTTP exchange (requests.post + raise_for_status + response.json)    *)

\* What the provider or the network can answer to one POST besides a 2xx
\* JSON document: a non-2xx status, a transport failure, or a 2xx body that
\* is not JSON.  response.json() then raises requests' JSONDecodeError (a
\* RequestException) or, with requests before 2.27, the json module's (a
\* ValueError only); the installed version is not fixed by the repository.
TextLimit == 200

\* A JSON object and an HTML page of n characters (response.text)
JsonText(n) == <<"{">> \o [i \in 1..(n - 2) |-> "j"] \o <<"}">>

HtmlText(n) == <<"<">> \o [i \in 1..(n - 2) |-> "h"] \o <<">">>

\* response.json() succeeds
ParsesAsJson(text) == text # <<>> /\ text[1] = "{" /\ text[Len(text)] = "}"

\* text[:n]
Take(text, n) == SubSeq(text, 1, IF Len(text) < n THEN Len(text) ELSE n)

\* Bodies of a non-2xx response, shorter and longer than the limit
ErrorBodies ==
    { JsonText(20), JsonText(TextLimit + 1), HtmlText(20), HtmlText(TextLimit + 1) }

Failures ==
    { [kind |-> "status", status |-> st, body |-> b] :
          st \in {401, 500}, b \in ErrorBodies }
    \cup { [kind |-> "transport", error |-> e] : e \in {"Timeout", "ConnectionError"} }
    \cup { [kind |-> "body", error |-> e] :
               e \in {"requests.JSONDecodeError", "json.JSONDecodeError"} }

\* except requests.exceptions.HTTPError (services.py:58-63, 162-168): the
\* raise inside the inner try is itself caught by the inner except, so the
\* message is always built from response.text[:200]
HttpErrorMessage(prefix, failure) ==
    LET inner == IF ParsesAsJson(failure.body)
                 THEN Raise("Exception", [text |-> prefix, status |-> failure.status,
                                          from |-> "json", body |-> failure.body])
                 ELSE Raise("JSONDecodeError", [text |-> "Expecting value"])
    IN  IF inner.raised
        THEN Raise("Exception", [text |-> prefix, status |-> failure.status,
                                 from |-> "text",
                                 body |-> Take(failure.body, TextLimit)])
        ELSE inner

\* except requests.exceptions.RequestException: str(e), which for an
\* HTTPError names the status and not the body; any other exception leaves
\* the service method as it is
TransportMessage(prefix, failure) ==
    IF failure.kind = "body" /\ failure.error = "json.JSONDecodeError"
    THEN Raise("ValueError", [text |-> "Expecting value", cause |-> failure.error])
    ELSE IF failure.kind = "status"
    THEN Raise("Exception", [text |-> prefix, status |-> failure.status,
                             cause |-> "HTTPError"])
    ELSE Raise("Exception", [text |-> prefix, cause |-> failure.error])

\* mutant: a second attempt after a failed exchange
PostsWithRetry(request, answer) ==
    IF answer.kind = "ok" THEN <<request>> ELSE <<request, request>>

\* Requests put on the wire by one try block: requests.post is called once
\* and no handler calls it again
Posts(request, answer) == <<request>>

-----------------------------------------------------------------------------
(* base64.b64encode: 3 bytes to 4 sextets, 64 stands for the pad '='       *)

RECURSIVE b64encode(_)
b64encode(b) ==
    IF Len(b) = 0 THEN <<>>
    ELSE IF Len(b) = 1
    THEN <<b[1] \div 4, (b[1] % 4) * 16, 64, 64>>
    ELSE IF Len(b) = 2
    THEN <<b[1] \div 4, (b[1] % 4) * 16 + b[2] \div 16, (b[2] % 16) * 4, 64>>
    ELSE <<b[1] \div 4, (b[1] % 4) * 16 + b[2] \div 16,
           (b[2] % 16) * 4 + b[3] \div 64, b[3] % 64>>
         \o b64encode(SubSeq(b, 4, Len(b)))

-----------------------------------------------------------------------------
(* PlantIdDiseaseService.detect_disease                                    *)

PlantIdRequest(self, data) ==
    [url     |-> "https://api.plant.id/v3/identification",
     params  |-> [details |-> "local_name,description,treatment,common_names"],
     headers |-> [ApiKey |-> self.api_key, ContentType |-> "application/json"],
     json    |-> [images |-> <<b64encode(data)>>, health |-> "only"],
     timeout |-> 60]

PlantIdDetect(self, data, organ_, filename, answer) ==
    LET request == PlantIdRequest(self, data)
    IN  [sent |-> Posts(request, answer),
         call |-> IF answer.kind = "ok" THEN Return(answer.json)
                  ELSE IF answer.kind = "status"
                  THEN HttpErrorMessage("plant.id API error", answer)
                  ELSE TransportMessage("plant.id API error", answer)]

-----------------------------------------------------------------------------
(* PlantNetService.identify_plant                                          *)

S_leaf   == <<"l", "e", "a", "f">>
S_flower == <<"f", "l", "o", "w", "e", "r">>
S_fruit  == <<"f", "r", "u", "i", "t">>
S_bark   == <<"b", "a", "r", "k">>
S_habit  == <<"h", "a", "b", "i", "t">>
S_other  == <<"o", "t", "h", "e", "r">>

valid_organs == <<S_leaf, S_flower, S_fruit, S_bark, S_habit, S_other>>

InList(x, list) == \E i \in 1..Len(list) : list[i] = x

\* services.py:130, [organ for organ in organs if organ in valid_organs]
RECURSIVE FilterValid(_)
FilterValid(list) ==
    IF list = <<>> THEN <<>>
    ELSE IF InList(Head(list), valid_organs)
    THEN <<Head(list)>> \o FilterValid(Tail(list))
    ELSE FilterValid(Tail(list))

\* mutant: no default when the filter leaves nothing
NoDefault(filtered) == IF filtered = <<>> THEN <<<<>>>> ELSE filtered

\* services.py:132-133
OrDefault(filtered) == IF filtered = <<>> THEN <<S_leaf>> ELSE filtered

\* mutant: the last surviving organ is sent
LastOrgan(list) == list[Len(list)]

\* services.py:155, organs[0]
FirstOrgan(list) == list[1]

\* mutant: an empty part is sent in place of the bytes
EmptyImagePart(filename, data) ==
    [filename |-> filename, content |-> <<>>, mime |-> "image/jpeg"]

\* services.py:149 and 187, (filename, image_data, 'image/jpeg')
ImagePart(filename, data) ==
    [filename |-> filename, content |-> data, mime |-> "image/jpeg"]

IdentifyRequest(self, data, organs_, filename) ==
    LET kept == OrDefault(FilterValid(organs_))
    IN  [url     |-> <<"https://my-api.plantnet.org/v2", "identify", self.project>>,
         params  |-> [apikey |-> self.api_key],
         files   |-> [images |-> ImagePart(filename, data)],
         data    |-> [organs |-> FirstOrgan(kept)],
         timeout |-> 30]

PlantNetIdentify(self, data, organs_, filename, answer) ==
    LET request == IdentifyRequest(self, data, organs_, filename)
    IN  [sent |-> Posts(request, answer),
         call |-> IF answer.kind = "ok" THEN Return(answer.json)
                  ELSE IF answer.kind = "status"
                  THEN HttpErrorMessage("PlantNet API error", answer)
                  ELSE TransportMessage("PlantNet API error", answer)]

-----------------------------------------------------------------------------
(* PlantNetService.detect_disease                                          *)

PlantNetDiseaseRequest(self, data, organ_, filename) ==
    [url     |-> <<"https://my-api.plantnet.org/v2/diseases", "identify">>,
     params  |-> [apikey |-> self.disease_api_key],
     files   |-> [images |-> ImagePart(filename, data)],
     timeout |-> 30]

PlantNetDetect(self, data, organ_, filename, answer) ==
    IF Falsy(self.disease_api_key)
    THEN [sent |-> <<>>,
          call |-> Raise("ValueError", [text |-> "PLANTNET_DISEASE_API_KEY not configured"])]
    ELSE LET request == PlantNetDiseaseRequest(self, data, organ_, filename)
         IN  [sent |-> Posts(request, answer),
              call |-> IF answer.kind = "ok" THEN Return(answer.json)
                       ELSE TransportMessage("PlantNet Disease API error", answer)]

-----------------------------------------------------------------------------
(* Result normalisation                                                    *)
(* A provider score is carried as an integer number of 1e-5 (0.91 is       *)
(* 91000); a normalised score is an integer number of hundredths of a      *)
(* percent (91.0 is 9100).                                                 *)

EmptyDict == [k \in {} |-> None]

\* score * 100: the same integer, now counting thousandths of a percent
Percent(score) == score

\* round(percent, 2): to the nearest hundredth.  The halfway case goes to
\* the even neighbour; the scores drawn below never end in 5, where the
\* result would depend on the binary representation of the float.
Round2(units) ==
    LET q == units \div 10
        r == units % 10
    IN  IF r < 5 THEN q
        ELSE IF r > 5 THEN q + 1
        ELSE IF q % 2 = 0 THEN q ELSE q + 1

\* mutant: a tie goes in front of the entries it ties with
InsertBeforeTies(sorted, x) ==
    LET before == Cardinality({i \in 1..Len(sorted) : sorted[i].score > x.score})
    IN  SubSeq(sorted, 1, before) \o <<x>> \o SubSeq(sorted, before + 1, Len(sorted))

\* mutant: an entry whose score is already present is dropped
InsertUnlessTied(sorted, x) ==
    LET before == Cardinality({i \in 1..Len(sorted) : sorted[i].score >= x.score})
    IN  IF \E i \in 1..Len(sorted) : sorted[i].score = x.score THEN sorted
        ELSE SubSeq(sorted, 1, before) \o <<x>> \o SubSeq(sorted, before + 1, Len(sorted))

\* mutant: ascending placement
InsertAsc(sorted, x) ==
    LET before == Cardinality({i \in 1..Len(sorted) : sorted[i].score <= x.score})
    IN  SubSeq(sorted, 1, before) \o <<x>> \o SubSeq(sorted, before + 1, Len(sorted))

\* Place x in a list already in descending order of score, after every entry
\* whose score is at least x's (list.sort is stable, also with reverse=True)
InsertDesc(sorted, x) ==
    LET before == Cardinality({i \in 1..Len(sorted) : sorted[i].score >= x.score})
    IN  SubSeq(sorted, 1, before) \o <<x>> \o SubSeq(sorted, before + 1, Len(sorted))

\* mutant: the list is left in the provider's order
KeepOrder(list) == list

\* results.sort(key=lambda x: x['score'], reverse=True)
RECURSIVE SortByScore(_)
SortByScore(list) ==
    IF list = <<>> THEN <<>>
    ELSE InsertDesc(SortByScore(SubSeq(list, 1, Len(list) - 1)), list[Len(list)])

\* results[0][field] if results else None
BestMatch(results, field) ==
    IF results # <<>> THEN results[1][field] ELSE None

\* services.py:226-235
SpeciesCandidate(result) ==
    LET species == Get(result, "species", EmptyDict)
    IN  [scientific_name |-> Get(species, "scientificNameWithoutAuthor", "Unknown"),
         common_names    |-> Get(species, "commonNames", <<>>),
         score           |-> Round2(Percent(Get(result, "score", 0))),
         genus  |-> Get(Get(species, "genus", EmptyDict),
                        "scientificNameWithoutAuthor", None),
         family |-> Get(Get(species, "family", EmptyDict),
                        "scientificNameWithoutAuthor", None)]

\* PlantNetService.parse_identification_result
parse_identification_result(api_response) ==
    LET mapped  == IF Has(api_response, "results")
                   THEN [i \in 1..Len(api_response.results) |->
                            SpeciesCandidate(api_response.results[i])]
                   ELSE <<>>
        results == SortByScore(mapped)
    IN  [query      |-> Get(api_response, "query", EmptyDict),
         results    |-> results,
         best_match |-> BestMatch(results, "scientific_name"),
         remaining_identification_requests |->
             Get(api_response, "remainingIdentificationRequests", None)]

\* services.py:79-88
PlantIdCandidate(item) ==
    [disease_name |-> Or(Get(item, "name", None), "Unknown"),
     score        |-> Round2(Percent(Get(item, "probability", 0))),
     description  |-> Get(Get(item, "details", EmptyDict), "description", None)]

\* PlantIdDiseaseService.parse_disease_result
plantid_parse_disease_result(api_response) ==
    LET result      == Get(api_response, "result", EmptyDict)
        disease     == Get(result, "disease", EmptyDict)
        suggestions == Get(disease, "suggestions", <<>>)
        results     == SortByScore([i \in 1..Len(suggestions) |->
                                       PlantIdCandidate(suggestions[i])])
    IN  [results    |-> results,
         best_match |-> BestMatch(results, "disease_name")]

\* services.py:253-260
PlantNetDiseaseCandidate(result) ==
    [disease_name |-> Get(result, "name", "Unknown"),
     score        |-> Round2(Percent(Get(result, "score", 0))),
     description  |-> None]

\* PlantNetService.parse_disease_result
plantnet_parse_disease_result(api_response) ==
    LET mapped  == IF Has(api_response, "results")
                   THEN [i \in 1..Len(api_response.results) |->
                            PlantNetDiseaseCandidate(api_response.results[i])]
                   ELSE <<>>
        results == SortByScore(mapped)
    IN  [results    |-> results,
         best_match |-> BestMatch(results, "disease_name")]

-----------------------------------------------------------------------------
(* api.py                                                                  *)

S_plantid  == <<"p", "l", "a", "n", "t", "i", "d">>
S_plantnet == <<"p", "l", "a", "n", "t", "n", "e", "t">>

\* UploadedFile.read(): the rest of the stream, which is then exhausted
StreamRead(file) ==
    [data |-> SubSeq(file.content, file.pos + 1, Len(file.content)),
     file |-> [file EXCEPT !.pos = Len(file.content), !.reads = file.reads + 1]]

\* api.py:65-68 and 122-125, the except clauses of a route
ErrorReply(exc, label) ==
    [status |-> 400,
     body   |-> [error  |-> IF IsValueError(exc) THEN "Validation Error" ELSE label,
                 detail |-> exc.msg]]

\* api.py:52, [organ.strip() for organ in organs.split(',')]
organs_list(organs_) ==
    LET fields == split(organs_, ",")
    IN  [i \in 1..Len(fields) |-> strip(fields[i])]

\* api.py:95, (model or "plantid").strip().lower()
NormalizeModel(model_) == lower(strip(IF model_ = <<>> THEN S_plantid ELSE model_))

\* mutant: every identifier is taken as PlantNet unless it is plantid
AnyBackend(m) == TRUE

\* api.py:96, model in ("plantid", "plantnet")
ValidBackend(m) == m \in {S_plantid, S_plantnet}

\* get_plant_id_disease_service(): the instance, and the new value of the global
get_plant_id_disease_service ==
    IF _plant_id_disease_service = <<>>
    THEN LET made == PlantIdDiseaseService
         IN  IF made.raised
             THEN [call |-> made, global |-> _plant_id_disease_service]
             ELSE [call |-> made, global |-> <<made.value>>]
    ELSE [call   |-> Return(_plant_id_disease_service[1]),
          global |-> _plant_id_disease_service]

-----------------------------------------------------------------------------
(* Inputs                                                                  *)

MaxBytes == max_size_mb * BytesPerMb

Payload(n) == [i \in 1..n |-> (i * 37) % 256]

Buf(magic, declared, present) == <<magic, declared>> \o Payload(present)

\* Uploads of every kind around the size limit: identified or not, fully
\* present or truncated, of MaxBytes + 1, MaxBytes and fewer bytes
Buffers ==
    {<<>>, <<255>>}
    \cup { Buf(m, 0, p) : m \in {66, 0}, p \in {0, MaxBytes - 1} }
    \cup { Buf(m, d, p) : m \in {255, 137},
                          d \in {0, MaxBytes - 2, MaxBytes - 1},
                          p \in {0, MaxBytes - 2, MaxBytes - 1} }

Filenames == {"photo.jpg"}

Uploads ==
    { [name |-> n, content |-> b, pos |-> 0, reads |-> 0] :
          n \in Filenames, b \in Buffers }

S_xyz == <<"x", "y", "z">>

\* Values of the organs query parameter
OrganParams ==
    { S_leaf,
      <<>>,
      S_xyz \o <<",">> \o S_flower \o <<",">> \o S_xyz,
      <<" ">> \o S_bark \o <<" ", ",">> \o S_habit,
      <<"L">> \o Tail(S_leaf) \o <<",">> \o S_xyz,
      S_fruit \o <<",">> \o S_other \o <<",">> }

\* Values of the organ query parameter of /detect-disease
DiseaseOrgans == {"leaf", "flower"}

\* Values of the model query parameter
ModelParams ==
    { S_plantid, S_plantnet, <<>>, <<"f", "o", "o">>,
      <<"P", "l", "a", "n", "t", "I", "D">>,
      <<" ">> \o S_plantnet \o <<"\n">>,
      <<" ">> }

\* Provider documents: every field is either present with a value of its
\* documented type or absent; JSON null is not drawn.
Names == {"Rosa canina", "Acer campestre"}

\* 0.4, 0.77, 0.91 and 0.91004
Scores == {40000, 77000, 91000, 91004}

Named(name) == [scientificNameWithoutAuthor |-> name]

SpeciesEntry(name, score) ==
    [species |-> [scientificNameWithoutAuthor |-> name,
                  commonNames |-> <<"common " \o name>>,
                  genus       |-> Named("genus of " \o name),
                  family      |-> Named("family of " \o name)],
     score   |-> score]

SpeciesEntries ==
    { SpeciesEntry(n, sc) : n \in Names, sc \in Scores }
    \cup { [score |-> 77000],
           [species |-> [commonNames |-> <<>>]] }

PlantIdEntry(name, prob) ==
    [name        |-> name,
     probability |-> prob,
     details     |-> [description |-> "about " \o name]]

PlantIdEntries ==
    { PlantIdEntry(n, sc) : n \in Names, sc \in Scores }
    \cup { [probability |-> 77000],
           [name |-> "", details |-> [treatment |-> "none"]] }

\* The other shape a PlantNet disease entry comes in: name and description
\* under a disease sub-object
NestedDiseaseEntry(name, score) ==
    [disease |-> [name |-> name, description |-> "about " \o name],
     score   |-> score]

PlantNetDiseaseEntries ==
    { [name |-> n, score |-> sc] : n \in Names, sc \in Scores }
    \cup { NestedDiseaseEntry("Rosa canina", 91000),
           NestedDiseaseEntry("Acer campestre", 77000) }
    \cup { [score |-> 77000],
           [name |-> "Acer campestre"] }

MaxResults == 3

RECURSIVE ListsOf(_, _)
ListsOf(S, n) ==
    IF n = 0 THEN {<<>>}
    ELSE LET shorter == ListsOf(S, n - 1)
         IN  shorter \cup { Append(l, x) : l \in {m \in shorter : Len(m) = n - 1}, x \in S }

SpeciesResponse(list) ==
    [query   |-> [project |-> "all", organs |-> <<"leaf">>],
     results |-> list,
     remainingIdentificationRequests |-> 499]

PlantIdResponse(list) == [result |-> [disease |-> [suggestions |-> list]]]

PlantNetDiseaseResponse(list) == [results |-> list]

\* Every response with up to MaxResults entries, and those lacking the list
SpeciesResponses ==
    { SpeciesResponse(l) : l \in ListsOf(SpeciesEntries, MaxResults) }
    \cup { [query |-> [project |-> "all"]], EmptyDict }

PlantIdResponses ==
    { PlantIdResponse(l) : l \in ListsOf(PlantIdEntries, MaxResults) }
    \cup { [result |-> [is_plant |-> "yes"]], [result |-> [disease |-> EmptyDict]],
           EmptyDict }

PlantNetDiseaseResponses ==
    { PlantNetDiseaseResponse(l) : l \in ListsOf(PlantNetDiseaseEntries, MaxResults) }
    \cup { [query |-> [project |-> "all"]], EmptyDict }

\* The 2xx answers the served requests receive
Answered(docs) == { [kind |-> "ok", status |-> 200, json |-> d] : d \in docs }

SpeciesAnswers ==
    Answered({ SpeciesResponse(<<SpeciesEntry("Rosa canina", 91000),
                                 SpeciesEntry("Acer campestre", 40000),
                                 SpeciesEntry("Quercus robur", 77000)>>),
               SpeciesResponse(<<>>),
               EmptyDict })
    \cup Failures

PlantIdAnswers ==
    Answered({ PlantIdResponse(<<PlantIdEntry("rust", 40000),
                                 PlantIdEntry("mildew", 91000)>>),
               PlantIdResponse(<<>>),
               EmptyDict })
    \cup Failures

PlantNetDiseaseAnswers ==
    Answered({ PlantNetDiseaseResponse(<<[name |-> "PUCCRE", score |-> 40000],
                                         [name |-> "ERYSGR", score |-> 91000]>>),
               PlantNetDiseaseResponse(<<>>),
               EmptyDict })
    \cup Failures

MaxOrgans == 3

OrganTags ==
    { S_leaf, S_flower, S_fruit, S_bark, S_habit, S_other,
      S_xyz, <<>>, <<"L">> \o Tail(S_leaf) }

\* Organ sequences a caller can hand to PlantNetService.identify_plant
OrganLists == ListsOf(OrganTags, MaxOrgans)

-----------------------------------------------------------------------------
(* The process: import of api.py, then requests served one after another   *)

NoUpload == [name |-> "", content |-> <<>>, pos |-> 0, reads |-> 0]

Idle ==
    /\ pc = "idle" /\ route = "none" /\ image = NoUpload
    /\ organs = <<>> /\ organ = "" /\ model = <<>>
    /\ image_data = <<>> /\ validation = <<>> /\ backend = <<>>
    /\ http = <<>> /\ response = <<>> /\ raw_result = <<>> /\ reply = <<>>

NoUnit == fn = "none" /\ arg = <<>> /\ out = <<>>

NoThreads == thread = <<>> /\ instances = <<>>

Init ==
    /\ env \in Environments
    /\ boot = "init"
    /\ plantnet_service = <<>>
    /\ _plant_id_disease_service = <<>>
    /\ Idle
    /\ NoUnit
    /\ NoThreads

\* api.py:15, plantnet_service = PlantNetService() runs when the module is
\* imported; an exception there leaves the module, and its routes, unloaded
ImportModule ==
    /\ boot = "init"
    /\ LET made == PlantNetService
       IN  IF made.raised
           THEN boot' = "crashed" /\ UNCHANGED plantnet_service
           ELSE boot' = "up" /\ plantnet_service' = <<made.value>>
    /\ UNCHANGED <<env, _plant_id_disease_service>>
    /\ UNCHANGED reqvars
    /\ UNCHANGED unitvars
    /\ UNCHANGED lazyvars

\* POST /identify arrives
ReceiveIdentify ==
    /\ boot = "up" /\ pc = "idle"
    /\ \E file \in Uploads, o \in OrganParams :
          /\ image' = file
          /\ organs' = o
    /\ route' = "identify"
    /\ pc' = "received"
    /\ UNCHANGED <<env, boot, plantnet_service, _plant_id_disease_service>>
    /\ UNCHANGED <<organ, model, image_data, validation, backend, http, response,
                   raw_result, reply>>
    /\ UNCHANGED unitvars
    /\ UNCHANGED lazyvars

\* POST /detect-disease arrives
ReceiveDetect ==
    /\ boot = "up" /\ pc = "idle"
    /\ \E file \in Uploads, o \in DiseaseOrgans, m \in ModelParams :
          /\ image' = file
          /\ organ' = o
          /\ model' = m
    /\ route' = "detect"
    /\ pc' = "received"
    /\ UNCHANGED <<env, boot, plantnet_service, _plant_id_disease_service>>
    /\ UNCHANGED <<organs, image_data, validation, backend, http, response,
                   raw_result, reply>>
    /\ UNCHANGED unitvars
    /\ UNCHANGED lazyvars

\* api.py:43-49 and 91-93: read the upload, validate the bytes
ReadAndValidate ==
    /\ pc = "received"
    /\ LET read    == StreamRead(image)
           checked == validate_image(read.data, max_size_mb)
       IN  /\ image' = read.file
           /\ image_data' = read.data
           /\ validation' = <<checked>>
           /\ IF checked.call.raised
              THEN /\ reply' = <<ErrorReply(checked.call.exc,
                                     IF route = "identify" THEN "Identification Error"
                                     ELSE "Disease Detection Error")>>
                   /\ pc' = "done"
              ELSE /\ pc' = "validated"
                   /\ UNCHANGED reply
    /\ UNCHANGED <<env, boot, plantnet_service, _plant_id_disease_service>>
    /\ UNCHANGED <<route, organs, organ, model, backend, http, response, raw_result>>
    /\ UNCHANGED unitvars
    /\ UNCHANGED lazyvars

\* api.py:52-59 with PlantNetService.identify_plant
IdentifyCall ==
    /\ pc = "validated" /\ route = "identify"
    /\ \E answer \in SpeciesAnswers :
          LET r == PlantNetIdentify(plantnet_service[1], image_data,
                                    organs_list(organs), image.name, answer)
          IN  /\ http' = http \o r.sent
              /\ response' = IF r.sent = <<>> THEN response ELSE <<answer>>
              /\ IF r.call.raised
                 THEN /\ reply' = <<ErrorReply(r.call.exc, "Identification Error")>>
                      /\ pc' = "done"
                      /\ UNCHANGED raw_result
                 ELSE /\ raw_result' = <<r.call.value>>
                      /\ pc' = "called"
                      /\ UNCHANGED reply
    /\ UNCHANGED <<env, boot, plantnet_service, _plant_id_disease_service>>
    /\ UNCHANGED <<route, image, organs, organ, model, image_data, validation, backend>>
    /\ UNCHANGED unitvars
    /\ UNCHANGED lazyvars

\* api.py:62-63
IdentifyReturn ==
    /\ pc = "called" /\ route = "identify"
    /\ reply' = <<[status |-> 200, body |-> parse_identification_result(raw_result[1])]>>
    /\ pc' = "done"
    /\ UNCHANGED <<env, boot, plantnet_service, _plant_id_disease_service>>
    /\ UNCHANGED <<route, image, organs, organ, model, image_data, validation,
                   backend, http, response, raw_result>>
    /\ UNCHANGED unitvars
    /\ UNCHANGED lazyvars

\* api.py:95-103 and 110-114: choose the backend and obtain its service
SelectBackend ==
    /\ pc = "validated" /\ route = "detect"
    /\ LET m == NormalizeModel(model)
       IN  /\ backend' = m
           /\ IF ~ValidBackend(m)
              THEN /\ reply' = <<[status |-> 400,
                                  body |-> [error  |-> "Validation Error",
                                            detail |-> [text |-> "Invalid model"]]]>>
                   /\ pc' = "done"
                   /\ UNCHANGED _plant_id_disease_service
              ELSE IF m = S_plantid
              THEN LET got == get_plant_id_disease_service
                   IN  /\ _plant_id_disease_service' = got.global
                       /\ IF got.call.raised
                          THEN /\ reply' = <<ErrorReply(got.call.exc,
                                                        "Disease Detection Error")>>
                               /\ pc' = "done"
                          ELSE /\ pc' = "selected"
                               /\ UNCHANGED reply
              ELSE /\ UNCHANGED _plant_id_disease_service
                   /\ IF Falsy(plantnet_service[1].disease_api_key)
                      THEN /\ reply' = <<[status |-> 400,
                                  body |-> [error  |-> "Configuration Error",
                                            detail |-> [text |-> "PLANTNET_DISEASE_API_KEY not set"]]]>>
                           /\ pc' = "done"
                      ELSE /\ pc' = "selected"
                           /\ UNCHANGED reply
    /\ UNCHANGED <<env, boot, plantnet_service>>
    /\ UNCHANGED <<route, image, organs, organ, model, image_data, validation,
                   http, response, raw_result>>
    /\ UNCHANGED unitvars
    /\ UNCHANGED lazyvars

\* api.py:104-106 and 115-117 with the service's detect_disease
DetectCall ==
    /\ pc = "selected" /\ route = "detect"
    /\ \E answer \in IF backend = S_plantid THEN PlantIdAnswers
                     ELSE PlantNetDiseaseAnswers :
          LET r == IF backend = S_plantid
                   THEN PlantIdDetect(_plant_id_disease_service[1], image_data,
                                      organ, image.name, answer)
                   ELSE PlantNetDetect(plantnet_service[1], image_data,
                                       organ, image.name, answer)
          IN  /\ http' = http \o r.sent
              /\ response' = IF r.sent = <<>> THEN response ELSE <<answer>>
              /\ IF r.call.raised
                 THEN /\ reply' = <<ErrorReply(r.call.exc, "Disease Detection Error")>>
                      /\ pc' = "done"
                      /\ UNCHANGED raw_result
                 ELSE /\ raw_result' = <<r.call.value>>
                      /\ pc' = "called"
                      /\ UNCHANGED reply
    /\ UNCHANGED <<env, boot, plantnet_service, _plant_id_disease_service>>
    /\ UNCHANGED <<route, image, organs, organ, model, image_data, validation, backend>>
    /\ UNCHANGED unitvars
    /\ UNCHANGED lazyvars

\* api.py:107, 118 and 120
DetectReturn ==
    /\ pc = "called" /\ route = "detect"
    /\ reply' = <<[status |-> 200,
                   body   |-> IF backend = S_plantid
                              THEN plantid_parse_disease_result(raw_result[1])
                              ELSE plantnet_parse_disease_result(raw_result[1])]>>
    /\ pc' = "done"
    /\ UNCHANGED <<env, boot, plantnet_service, _plant_id_disease_service>>
    /\ UNCHANGED <<route, image, organs, organ, model, image_data, validation,
                   backend, http, response, raw_result>>
    /\ UNCHANGED unitvars
    /\ UNCHANGED lazyvars

\* The response is sent; the request's locals go out of scope
Finish ==
    /\ pc = "done"
    /\ pc' = "idle" /\ route' = "none" /\ image' = NoUpload
    /\ organs' = <<>> /\ organ' = "" /\ model' = <<>>
    /\ image_data' = <<>> /\ validation' = <<>> /\ backend' = <<>>
    /\ http' = <<>> /\ response' = <<>> /\ raw_result' = <<>> /\ reply' = <<>>
    /\ UNCHANGED <<env, boot, plantnet_service, _plant_id_disease_service>>
    /\ UNCHANGED unitvars
    /\ UNCHANGED lazyvars

Next ==
    \/ ImportModule
    \/ ReceiveIdentify
    \/ ReceiveDetect
    \/ ReadAndValidate
    \/ IdentifyCall
    \/ IdentifyReturn
    \/ SelectBackend
    \/ DetectCall
    \/ DetectReturn
    \/ Finish

Spec == Init /\ [][Next]_vars

-----------------------------------------------------------------------------
(* The service functions applied on their own to drawn arguments           *)

UnitService == [api_key |-> "key-plantnet", disease_api_key |-> "key-plantnet",
                project |-> "all"]

UnitEnvironment ==
    [PLANTNET_API_KEY |-> "key-plantnet", PLANTNET_DISEASE_API_KEY |-> None,
     PLANTNET_PROJECT |-> None, PLANT_ID_API_KEY |-> None, PLANTID_API_KEY |-> None]

UnitInit ==
    /\ env = UnitEnvironment
    /\ boot = "up"
    /\ plantnet_service = <<UnitService>>
    /\ _plant_id_disease_service = <<>>
    /\ Idle
    /\ NoUnit
    /\ NoThreads

\* PlantNetService.identify_plant up to the request it posts, with the
\* filtered list of services.py:130
ApplyIdentifyPlant ==
    /\ fn = "none"
    /\ \E list \in OrganLists :
          /\ arg' = list
          /\ out' = [kept    |-> FilterValid(list),
                      request |-> IdentifyRequest(UnitService, Buf(255, 0, 0),
                                                  list, "photo.jpg")]
    /\ fn' = "identify_plant"
    /\ UNCHANGED <<env, boot, plantnet_service, _plant_id_disease_service>>
    /\ UNCHANGED reqvars
    /\ UNCHANGED lazyvars

ApplyParseIdentification ==
    /\ fn = "none"
    /\ \E doc \in SpeciesResponses :
          /\ arg' = doc
          /\ out' = parse_identification_result(doc)
    /\ fn' = "parse_identification_result"
    /\ UNCHANGED <<env, boot, plantnet_service, _plant_id_disease_service>>
    /\ UNCHANGED reqvars
    /\ UNCHANGED lazyvars

ApplyPlantIdParse ==
    /\ fn = "none"
    /\ \E doc \in PlantIdResponses :
          /\ arg' = doc
          /\ out' = plantid_parse_disease_result(doc)
    /\ fn' = "plantid_parse_disease_result"
    /\ UNCHANGED <<env, boot, plantnet_service, _plant_id_disease_service>>
    /\ UNCHANGED reqvars
    /\ UNCHANGED lazyvars

ApplyPlantNetParse ==
    /\ fn = "none"
    /\ \E doc \in PlantNetDiseaseResponses :
          /\ arg' = doc
          /\ out' = plantnet_parse_disease_result(doc)
    /\ fn' = "plantnet_parse_disease_result"
    /\ UNCHANGED <<env, boot, plantnet_service, _plant_id_disease_service>>
    /\ UNCHANGED reqvars
    /\ UNCHANGED lazyvars

UnitNext ==
    \/ ApplyIdentifyPlant
    \/ ApplyParseIdentification
    \/ ApplyPlantIdParse
    \/ ApplyPlantNetParse

SpecUnit == UnitInit /\ [][UnitNext]_vars

-----------------------------------------------------------------------------
(* get_plant_id_disease_service() run by concurrent invocations of         *)
(* detect_disease: the routes are plain functions, which the server runs   *)
(* in worker threads, and the test of the global, the constructor call,    *)
(* the store to the global and the load for the return are separate steps  *)
(* between which another thread may run.                                   *)

MaxThreads == 2

Threads == 1..MaxThreads

\* The module is loaded, so PLANTNET_API_KEY is set
LazyEnvironments ==
    { e \in Environments :
          /\ e["PLANTNET_API_KEY"] = "key-plantnet"
          /\ e["PLANTNET_DISEASE_API_KEY"] = None
          /\ e["PLANTNET_PROJECT"] = None }

\* A thread before its invocation: made is the object it constructed, used
\* the object get_plant_id_disease_service() returned to it (0: none)
Waiting == [pc |-> "idle", made |-> 0, used |-> 0]

LazyInit ==
    /\ env \in LazyEnvironments
    /\ boot = "up"
    /\ plantnet_service = <<PlantNetService.value>>
    /\ _plant_id_disease_service = <<>>
    /\ Idle
    /\ NoUnit
    /\ thread = [t \in Threads |-> Waiting]
    /\ instances = <<>>

LazyFrame ==
    /\ UNCHANGED <<env, boot, plantnet_service>>
    /\ UNCHANGED reqvars
    /\ UNCHANGED unitvars

\* api.py:104, the route calls get_plant_id_disease_service()
LazyEnter ==
    \E t \in Threads :
        /\ thread[t].pc = "idle"
        /\ thread' = [thread EXCEPT ![t].pc = "check"]
        /\ UNCHANGED <<_plant_id_disease_service, instances>>
        /\ LazyFrame

\* api.py:21, if _plant_id_disease_service is None
LazyCheck ==
    \E t \in Threads :
        /\ thread[t].pc = "check"
        /\ thread' = [thread EXCEPT ![t].pc =
                         IF _plant_id_disease_service = <<>> THEN "construct"
                         ELSE "return"]
        /\ UNCHANGED <<_plant_id_disease_service, instances>>
        /\ LazyFrame

\* api.py:22, the call PlantIdDiseaseService(); id is the object's identity
LazyConstruct ==
    \E t \in Threads :
        /\ thread[t].pc = "construct"
        /\ LET made == PlantIdDiseaseService
               id   == Len(instances) + 1
           IN  IF made.raised
               THEN /\ thread' = [thread EXCEPT ![t].pc = "raised"]
                    /\ UNCHANGED instances
               ELSE /\ instances' = Append(instances,
                                           [api_key |-> made.value.api_key, id |-> id])
                    /\ thread' = [thread EXCEPT ![t].pc = "assign", ![t].made = id]
        /\ UNCHANGED _plant_id_disease_service
        /\ LazyFrame

\* api.py:22, the store to the global
LazyAssign ==
    \E t \in Threads :
        /\ thread[t].pc = "assign"
        /\ _plant_id_disease_service' = <<instances[thread[t].made]>>
        /\ thread' = [thread EXCEPT ![t].pc = "return"]
        /\ UNCHANGED instances
        /\ LazyFrame

\* api.py:23, return _plant_id_disease_service reads the global again
LazyReturn ==
    \E t \in Threads :
        /\ thread[t].pc = "return"
        /\ thread' = [thread EXCEPT ![t].pc = "done",
                                    ![t].used = _plant_id_disease_service[1].id]
        /\ UNCHANGED <<_plant_id_disease_service, instances>>
        /\ LazyFrame

LazyNext ==
    \/ LazyEnter
    \/ LazyCheck
    \/ LazyConstruct
    \/ LazyAssign
    \/ LazyReturn

SpecLazy == LazyInit /\ [][LazyNext]_vars

-----------------------------------------------------------------------------
(* Properties                                                              *)

RECURSIVE b64decode(_)
b64decode(t) ==
    IF Len(t) < 4 THEN <<>>
    ELSE LET first  == t[1] * 4 + t[2] \div 16
             second == (t[2] % 16) * 16 + t[3] \div 4
             third  == (t[3] % 4) * 64 + t[4]
         IN  IF t[3] = 64 THEN <<first>>
             ELSE IF t[4] = 64 THEN <<first, second>>
             ELSE <<first, second, third>> \o b64decode(SubSeq(t, 5, Len(t)))

\* The image bytes a posted request carries
WireBytes(request) ==
    IF Has(request, "files") THEN request.files.images.content
    ELSE b64decode(request.json.images[1])

Validated == validation # <<>> /\ ~validation[1].call.raised

Rejected(text) ==
    /\ validation # <<>>
    /\ validation[1].call.raised
    /\ validation[1].call.exc.type = "ValueError"
    /\ validation[1].call.exc.msg.text = text

Replied(status) == reply # <<>> /\ reply[1].status = status

RepliedError(label) == Replied(400) /\ reply[1].body.error = label

\* C1: a buffer that validate_image accepts is the upload's bytes, read from
\* the stream once, of the same length and still decodable to a format after
\* validation; every request posted to a provider carries exactly those bytes
\* (for plant.id, as their base64 encoding).
C1_BufferIntactAndSent ==
    Validated =>
        /\ image.reads = 1
        /\ image_data = image.content
        /\ Len(image_data) = Len(image.content)
        /\ ~ImageOpen(BytesIO(image_data)).raised
        /\ ImageOpen(BytesIO(image_data)).value.format \in {"JPEG", "PNG"}
        /\ \A i \in 1..Len(http) : WireBytes(http[i]) = image.content

C1_Witness ==
    /\ Validated
    /\ pc = "called"
    /\ route = "detect" /\ backend = S_plantid
    /\ Len(http) = 1
    /\ Len(image.content) = MaxBytes
    /\ ~Has(http[1], "files")
    /\ b64decode(http[1].json.images[1]) = image.content

\* C2 as amended: in detect_disease, a backend identifier that is outside
\* {plantid, plantnet} after an empty value is replaced by plantid and the
\* value is stripped of surrounding whitespace and lower-cased ends the
\* invocation with a Validation Error, and no HTTP call is made at any point
\* of that invocation.
C2_UnsupportedBackendRejected ==
    (route = "detect" /\ NormalizeModel(model) \notin {S_plantid, S_plantnet}) =>
        /\ http = <<>>
        /\ pc \in {"received", "validated", "done"}
        /\ pc = "done" => RepliedError("Validation Error")

C2_Witness ==
    /\ route = "detect" /\ pc = "done"
    /\ model = <<"f", "o", "o">>
    /\ Validated
    /\ backend = model
    /\ RepliedError("Validation Error")
    /\ reply[1].body.detail.text = "Invalid model"
    /\ http = <<>>

\* C2 as stated: any backend identifier outside {plantid, plantnet} ends the
\* invocation with a Validation Error and without an HTTP call.
C2_AsStated ==
    (route = "detect" /\ model \notin {S_plantid, S_plantnet}) =>
        /\ http = <<>>
        /\ pc = "done" => RepliedError("Validation Error")

PlantIdKeyAbsent == Falsy(Or(env.PLANT_ID_API_KEY, env.PLANTID_API_KEY))

\* C3: detect_disease with backend plantid and no plant.id key fails with a
\* Configuration Error (not a Validation Error, not a provider error) and makes
\* no HTTP call.
C3_MissingKeyIsConfigurationError ==
    (route = "detect" /\ pc = "done" /\ Validated
        /\ NormalizeModel(model) = S_plantid /\ PlantIdKeyAbsent) =>
        /\ RepliedError("Configuration Error")
        /\ http = <<>>

\* The closed set of organ tags
OrganTagSet == {S_leaf, S_flower, S_fruit, S_bark, S_habit, S_other}

ValidPositions(list) == {i \in 1..Len(list) : list[i] \in OrganTagSet}

\* The position in list of its k-th valid tag
KthValid(list, k) ==
    CHOOSE i \in ValidPositions(list) :
        Cardinality({j \in ValidPositions(list) : j <= i}) = k

\* C4: for an organ sequence with at least one valid tag, identify_plant keeps
\* exactly the valid tags in the caller's order and posts one organ value with
\* one image part: the first valid tag of the sequence.
C4_FirstValidOrganSent ==
    (fn = "identify_plant" /\ ValidPositions(arg) # {}) =>
        /\ Len(out.kept) = Cardinality(ValidPositions(arg))
        /\ \A k \in 1..Len(out.kept) : out.kept[k] = arg[KthValid(arg, k)]
        /\ out.request.data.organs = arg[KthValid(arg, 1)]
        /\ DOMAIN out.request.data = {"organs"}
        /\ DOMAIN out.request.files = {"images"}

C4_Witness ==
    /\ fn = "identify_plant"
    /\ arg = <<S_xyz, S_flower, S_bark>>
    /\ out.kept = <<S_flower, S_bark>>
    /\ out.request.data.organs = S_flower

\* C5: for an organ sequence that is empty or holds only invalid tags,
\* identify_plant posts the single default organ leaf.
C5_DefaultOrganLeaf ==
    (fn = "identify_plant" /\ ValidPositions(arg) = {}) =>
        /\ out.kept = <<>>
        /\ out.request.data.organs = S_leaf
        /\ DOMAIN out.request.data = {"organs"}

C5_Witness ==
    /\ fn = "identify_plant"
    /\ arg = <<S_xyz, <<>>>>
    /\ out.request.data.organs = S_leaf

ParseFunctions == {"parse_identification_result", "plantid_parse_disease_result",
                   "plantnet_parse_disease_result"}

NameField == IF fn = "parse_identification_result" THEN "scientific_name"
             ELSE "disease_name"

\* The provider's list in the raw response, empty when it is missing
ProviderList ==
    IF fn = "plantid_parse_disease_result"
    THEN Get(Get(Get(arg, "result", EmptyDict), "disease", EmptyDict),
             "suggestions", <<>>)
    ELSE Get(arg, "results", <<>>)

\* C6: in the species, plant.id and PlantNet disease normalisers the results
\* are in descending order of score, and best_match is the name of results[0],
\* or None when results is empty, as it is for an empty or missing list.
C6_RankedWithBestMatch ==
    fn \in ParseFunctions =>
        /\ \A i, j \in 1..Len(out.results) :
               i < j => out.results[i].score >= out.results[j].score
        /\ out.results # <<>> => out.best_match = out.results[1][NameField]
        /\ out.results = <<>> => out.best_match = None
        /\ ProviderList = <<>> => out.results = <<>>

C6_Witness ==
    /\ fn = "parse_identification_result"
    /\ Has(arg, "results")
    /\ arg.results = <<SpeciesEntry("Rosa canina", 91000),
                       SpeciesEntry("Acer campestre", 40000),
                       SpeciesEntry("Acer campestre", 77000)>>
    /\ [i \in 1..3 |-> out.results[i].score] = <<9100, 7700, 4000>>
    /\ out.best_match = "Rosa canina"

\* C7: a buffer longer than the configured maximum is rejected as too large
\* before any decoding, whether or not it is a decodable image; a buffer of
\* exactly the maximum length is not rejected for its size.
C7_TooLargeBeforeDecode ==
    validation # <<>> =>
        /\ Len(image.content) > max_size_mb * BytesPerMb =>
               Rejected("Image too large") /\ ~validation[1].decoded
        /\ Len(image.content) = max_size_mb * BytesPerMb =>
               ~Rejected("Image too large") /\ validation[1].decoded

Decodable(bytes) ==
    LET opened == ImageOpen(BytesIO(bytes))
    IN  /\ ~opened.raised
        /\ opened.value.format # None
        /\ ~ImageLoad(opened.value).raised

C7_Witness ==
    /\ Len(image.content) = max_size_mb * BytesPerMb + 1
    /\ Decodable(image.content)
    /\ Rejected("Image too large")
    /\ RepliedError("Validation Error")

\* C8: a buffer within the size bound that cannot be fully decoded, or whose
\* format the decoder cannot determine, is rejected as an invalid image, and
\* the invocation does not go on.
C8_UndecodableIsInvalid ==
    (validation # <<>> /\ Len(image.content) <= max_size_mb * BytesPerMb
        /\ ~Decodable(image.content)) =>
        /\ Rejected("Invalid image file")
        /\ pc = "done"
        /\ RepliedError("Validation Error")

C8_Witness ==
    /\ image.content = Buf(255, MaxBytes - 2, 0)
    /\ Rejected("Invalid image file")
    /\ validation[1].call.exc.msg.cause = "image file is truncated"

\* C9: an invocation makes at most one HTTP call, exactly one when it returns
\* a normalised result, and a call that brings no result ends the invocation
\* in failure without a second attempt.
C9_SingleHttpCall ==
    /\ Len(http) <= 1
    /\ Replied(200) => Len(http) = 1
    /\ (http # <<>> /\ raw_result = <<>>) =>
           pc = "done" /\ Replied(400) /\ Len(http) = 1

C9_Witness ==
    /\ pc = "done"
    /\ Len(http) = 1
    /\ raw_result = <<>>
    /\ RepliedError("Identification Error")

PlantNetKeyAbsent == Falsy(env.PLANTNET_API_KEY)

\* C10: a provider whose own key is present remains usable whatever the other
\* keys are: without the PlantNet key the routes that serve plant.id are still
\* loaded, and without the plant.id key species identification is still served.
C10_ProvidersIndependent ==
    /\ (PlantNetKeyAbsent /\ ~PlantIdKeyAbsent) => boot # "crashed"
    /\ (PlantIdKeyAbsent /\ ~PlantNetKeyAbsent) => boot # "crashed"

StatusFailure == response # <<>> /\ response[1].kind = "status"

Detail == reply[1].body.detail

\* C11: after a non-2xx response the error carries the HTTP status, and the
\* parsed JSON body whenever the body parses as JSON; only otherwise the first
\* TextLimit characters of the raw text.  For the species call and both
\* disease backends.
C11_JsonBodyPreferred ==
    (pc = "done" /\ StatusFailure) =>
        /\ Replied(400)
        /\ Has(Detail, "status") /\ Detail.status = response[1].status
        /\ Has(Detail, "body") /\ Has(Detail, "from")
        /\ IF ParsesAsJson(response[1].body)
           THEN Detail.from = "json" /\ Detail.body = response[1].body
           ELSE Detail.from = "text"
                /\ Detail.body = Take(response[1].body, TextLimit)

OnBackendB == route = "detect" /\ backend = S_plantnet

\* C12: every disease request sent to PlantNet carries the caller's organ as
\* the organ query parameter, beside the api-key parameter and the multipart
\* image.
C12_OrganParameterSent ==
    \A i \in 1..Len(http) :
        OnBackendB =>
            /\ Has(http[i].params, "apikey")
            /\ http[i].files.images.content = image_data
            /\ Has(http[i].params, "organ")
            /\ http[i].params.organ = organ

DiseaseKeyConfigured == ~Falsy(env["PLANTNET_DISEASE_API_KEY"])

\* C13: PlantNet disease detection authenticates with the disease-specific
\* key when one is configured and with the species key otherwise, and in the
\* latter case it does not end in a Configuration Error.
C13_KeyFallback ==
    OnBackendB =>
        /\ \A i \in 1..Len(http) :
              http[i].params.apikey = IF DiseaseKeyConfigured
                                      THEN env["PLANTNET_DISEASE_API_KEY"]
                                      ELSE env["PLANTNET_API_KEY"]
        /\ ~DiseaseKeyConfigured => ~RepliedError("Configuration Error")

\* C14: the PlantNet disease normaliser accepts both shapes of an entry: one
\* with a disease sub-object yields that object's name and description, a
\* flat one yields its own name.
C14_BothShapesAccepted ==
    fn = "plantnet_parse_disease_result" =>
        \A i \in 1..Len(ProviderList) :
            LET entry == ProviderList[i]
            IN  /\ Has(entry, "disease") =>
                       \E j \in 1..Len(out.results) :
                           /\ out.results[j].disease_name = entry.disease.name
                           /\ out.results[j].description = entry.disease.description
                /\ (~Has(entry, "disease") /\ Has(entry, "name")) =>
                       \E j \in 1..Len(out.results) :
                           out.results[j].disease_name = entry.name

\* The provider's entries as the normaliser maps them, in the provider's order
Mapped ==
    [i \in 1..Len(ProviderList) |->
        IF fn = "parse_identification_result" THEN SpeciesCandidate(ProviderList[i])
        ELSE IF fn = "plantid_parse_disease_result" THEN PlantIdCandidate(ProviderList[i])
        ELSE PlantNetDiseaseCandidate(ProviderList[i])]

\* The provider's raw score of entry i
RawScore(i) ==
    Get(ProviderList[i],
        IF fn = "plantid_parse_disease_result" THEN "probability" ELSE "score", 0)

PlacesOf(n) ==
    { p \in [1..n -> 1..n] : \A i, j \in 1..n : i # j => p[i] # p[j] }

\* The ways to find each mapped entry at a place of its own in the output
Matchings ==
    IF Len(out.results) # Len(Mapped) THEN {}
    ELSE { p \in PlacesOf(Len(Mapped)) :
              \A i \in 1..Len(Mapped) : out.results[p[i]] = Mapped[i] }

\* C15: candidates with equal normalised score keep the relative order they
\* have in the provider's list.
C15_StableOnTies ==
    fn \in ParseFunctions =>
        \E p \in Matchings :
            \A i, j \in 1..Len(Mapped) :
                (i < j /\ Mapped[i].score = Mapped[j].score) => p[i] < p[j]

C15_Witness ==
    /\ fn = "parse_identification_result"
    /\ Has(arg, "results")
    /\ arg.results = <<SpeciesEntry("Acer campestre", 77000),
                       SpeciesEntry("Rosa canina", 91000),
                       SpeciesEntry("Acer campestre", 91000)>>
    /\ [i \in 1..3 |-> out.results[i].scientific_name]
           = <<"Rosa canina", "Acer campestre", "Acer campestre">>
    /\ [i \in 1..3 |-> out.results[i].score] = <<9100, 9100, 7700>>

\* C17: normalisation neither drops nor duplicates candidates: the output has
\* one entry per entry of the provider's list, and it is a permutation of the
\* mapped entries.
C17_PermutationOfMapped ==
    fn \in ParseFunctions =>
        /\ Len(out.results) = Len(ProviderList)
        /\ Matchings # {}
        /\ \A c \in {out.results[k] : k \in 1..Len(out.results)} :
               Cardinality({k \in 1..Len(out.results) : out.results[k] = c})
                   = Cardinality({i \in 1..Len(Mapped) : Mapped[i] = c})

C17_Witness ==
    /\ fn = "plantid_parse_disease_result"
    /\ ProviderList = <<PlantIdEntry("Rosa canina", 40000),
                        PlantIdEntry("Acer campestre", 91000),
                        PlantIdEntry("Rosa canina", 40000)>>
    /\ Len(out.results) = 3
    /\ out.results[1].disease_name = "Acer campestre"
    /\ out.results[2] = out.results[3]

MaxOf(S) == CHOOSE x \in S : \A y \in S : y <= x

\* C18, as stated: no candidate with a strictly higher raw score is placed
\* below one with a lower raw score, and best_match is a candidate with the
\* maximal raw score.
C18_AsStated ==
    fn \in ParseFunctions =>
        /\ \E p \in Matchings :
              \A i, j \in 1..Len(Mapped) : RawScore(i) > RawScore(j) => p[i] < p[j]
        /\ out.results # <<>> =>
              \E p \in Matchings : \E i \in 1..Len(Mapped) :
                  /\ p[i] = 1
                  /\ RawScore(i) = MaxOf({RawScore(k) : k \in 1..Len(Mapped)})

\* C18: a candidate with a strictly higher raw score is placed below one with
\* a lower raw score only when both round to the same normalised score, and
\* best_match is a candidate whose normalised score is maximal, the rounding
\* of the maximal raw score.
C18_AgreesUpToRounding ==
    fn \in ParseFunctions =>
        /\ \E p \in Matchings :
              \A i, j \in 1..Len(Mapped) :
                  (RawScore(i) > RawScore(j) /\ p[i] > p[j]) =>
                      Round2(Percent(RawScore(i))) = Round2(Percent(RawScore(j)))
        /\ out.results # <<>> =>
              /\ out.results[1].score
                     = Round2(Percent(MaxOf({RawScore(k) : k \in 1..Len(Mapped)})))
              /\ out.best_match = out.results[1][NameField]

C18_Witness ==
    /\ fn = "parse_identification_result"
    /\ ProviderList = <<SpeciesEntry("Rosa canina", 91000),
                        SpeciesEntry("Acer campestre", 91004),
                        SpeciesEntry("Rosa canina", 77000)>>
    /\ out.best_match = "Rosa canina"
    /\ [i \in 1..3 |-> out.results[i].score] = <<9100, 9100, 7700>>

\* The upload is longer than the maximum or is not a decodable image
InvalidUpload ==
    image # NoUpload /\ (Len(image.content) > MaxBytes \/ ~Decodable(image.content))

\* C16: an invocation validates the image, then (for disease detection)
\* selects the backend, then builds and posts the request, then normalises
\* the response.  An invalid image ends the invocation with no HTTP call, and
\* in disease detection it is reported before the backend identifier is
\* looked at.
C16_StagesInOrder ==
    /\ pc \in {"validated", "selected", "called"} => Validated
    /\ pc = "selected" => route = "detect" /\ ValidBackend(backend) /\ http = <<>>
    /\ http # <<>> => Validated /\ (route = "detect" => ValidBackend(backend))
    /\ raw_result # <<>> => http # <<>> /\ response # <<>>
    /\ Replied(200) => raw_result # <<>>
    /\ (validation # <<>> /\ InvalidUpload) =>
           /\ pc = "done" /\ http = <<>> /\ backend = <<>>
           /\ RepliedError("Validation Error")
           /\ reply[1].body.detail = validation[1].call.exc.msg

C16_Witness ==
    /\ route = "detect" /\ pc = "done"
    /\ InvalidUpload
    /\ model = <<"f", "o", "o">>
    /\ RepliedError("Validation Error")
    /\ reply[1].body.detail.text # "Invalid model"
    /\ http = <<>>

\* C19: under any interleaving of concurrent invocations the plant.id service
\* is constructed at most once and every invocation is given the same
\* instance; a construction that fails leaves the global unset, so that a
\* later invocation constructs again.
C19_ConstructedOnce ==
    thread # <<>> =>
        /\ Len(instances) <= 1
        /\ \A t, u \in Threads :
               (thread[t].used # 0 /\ thread[u].used # 0) =>
                   thread[t].used = thread[u].used
        /\ (\E t \in Threads : thread[t].pc = "raised") =>
               _plant_id_disease_service = <<>>

====
